---- MODULE Spec2Model ----
(***************************************************************************)
(* A model of the kanban board of app.py: the entity model (Task,          *)
(* ColumnModel, Board and Board.check_references), the board store         *)
(* (get_board / save_board over st.session_state and the project store),   *)
(* the mutation operations, JSON export and import, the sidebar filters,   *)
(* the drag-and-drop reconcile block at the end of the script, and a       *)
(* second session writing the same project row.                            *)
(*                                                                         *)
(* Strings that the program only compares are strings here.  Task ids are  *)
(* the strings "t-1", "t-2", ...; Python's sorted() orders them as strings *)
(* and TidRank gives that order.  A drag-and-drop token is the sequence of *)
(* the pieces of its text: the lines of the label, the separator U+2063    *)
(* and the id.                                                             *)
(***************************************************************************)
EXTENDS Integers, Sequences, FiniteSets, TLC

VARIABLES
  has_board,   \* "board" in st.session_state
  board,       \* st.session_state.board: the cached board, as a dict
  store,       \* the persisted snapshot of the current project
  rev_bumped,  \* st.session_state[REV_KEY] is no longer the revision in the
               \* key of the widget that holds result
  result,      \* the value the sortable widget holds and returns
  rerun,       \* st.rerun() was called: the script is about to run again
  prev,        \* history: st.session_state.board as the last operation found it
  last,        \* history: the last operation, its arguments and its outcome
  raw_in,      \* the raw data handed to Board(**raw) (SpecBoard)
  built,       \* the outcome of Board(**raw_in) (SpecBoard)
  other,       \* the session cache of a second browser session on the project
  filters      \* the sidebar's filter widgets: title text, priorities, tags

vars == <<has_board, board, store, rev_bumped, result, rerun, prev, last, raw_in, built, other, filters>>

(***************************************************************************)
(* Bounds                                                                  *)
(***************************************************************************)
MaxTid == 2
MaxRawTid == 3
MaxRawCols == 2
MaxRawRefs == 2

(***************************************************************************)
(* Generic helpers                                                         *)
(***************************************************************************)
Range(s) == {s[i] : i \in DOMAIN s}

SeqUpTo(S, n) == UNION {[1..k -> S] : k \in 0..n}

RECURSIVE Count(_, _)
Count(s, x) ==
  IF s = <<>> THEN 0
  ELSE (IF Head(s) = x THEN 1 ELSE 0) + Count(Tail(s), x)

\* The first index of s holding x, 0 when there is none.
RECURSIVE IndexFrom(_, _, _)
IndexFrom(s, x, i) ==
  IF i > Len(s) THEN 0
  ELSE IF s[i] = x THEN i
  ELSE IndexFrom(s, x, i + 1)

RemoveAt(s, i) == SubSeq(s, 1, i - 1) \o SubSeq(s, i + 1, Len(s))

RECURSIVE Flatten(_)
Flatten(ss) == IF ss = <<>> THEN <<>> ELSE Head(ss) \o Flatten(Tail(ss))

(***************************************************************************)
(* Identifiers                                                             *)
(***************************************************************************)
Tid(i) == "t-" \o ToString(i)
Cid(i) == "c-" \o ToString(i)

TaskIds == {Tid(i) : i \in 1..MaxTid}
NewColIds == {Cid(1)}
RawTaskIds == {Tid(i) : i \in 1..MaxRawTid}

\* The place of a task id in Python's string order.
TidRank(t) == CHOOSE i \in 1..(MaxTid + MaxRawTid + 2) : Tid(i) = t

\* list.remove(x): the first occurrence of x goes.
ListRemove(s, x) == RemoveAt(s, IndexFrom(s, x, 1))

\* sorted(list(S)) for a set of task ids.
RECURSIVE Sorted(_)
Sorted(S) ==
  IF S = {} THEN <<>>
  ELSE LET m == CHOOSE x \in S : \A y \in S : TidRank(x) <= TidRank(y)
       IN  <<m>> \o Sorted(S \ {m})

(***************************************************************************)
(* Task                                                                    *)
(***************************************************************************)
Priorities == {"Low", "Med", "High"}

NoDue == [kind |-> "none", v |-> ""]
DueStr(s) == [kind |-> "str", v |-> s]
DueDate(s) == [kind |-> "date", v |-> s]

\* The texts date.fromisoformat accepts, among those the model uses.
IsoDates == {"2024-05-01"}

\* Task.parse_due, then pydantic's own date validation.
ParseDueOk(v) ==
  \/ v.kind = "none"
  \/ v.kind = "date"
  \/ v.kind = "str" /\ (v.v = "" \/ v.v \in IsoDates)

ParseDue(v) ==
  IF v.kind = "none" \/ (v.kind = "str" /\ v.v = "") THEN NoDue
  ELSE IF v.kind = "str" THEN DueDate(v.v)
  ELSE v

\* Task(**d) succeeds.
TaskValid(d) ==
  /\ d.title # ""
  /\ d.priority \in Priorities
  /\ ParseDueOk(d.due)

\* Task(**d), for d with TaskValid(d).
MkTask(d) == [d EXCEPT !.due = ParseDue(d.due)]

\* Task.model_dump(mode="json"): a date becomes its ISO text.
DumpTask(t) ==
  [t EXCEPT !.due = IF t.due.kind = "date" THEN DueStr(t.due.v) ELSE t.due]

NewTask(title, due) ==
  [title |-> title, desc |-> "", priority |-> "Med", due |-> due,
   tags |-> <<>>, done |-> FALSE]

(***************************************************************************)
(* ColumnModel and Board                                                   *)
(***************************************************************************)
Column(id, name, task_ids) == [id |-> id, name |-> name, task_ids |-> task_ids]

NoTasks == [t \in {} |-> NoDue]

RECURSIVE CheckColumns(_, _, _, _)
\* The loop of check_references over columns i.., with `seen` the ids met so
\* far: "ok", or the first error it raises.
CheckColumns(cols, keys, seen, i) ==
  IF i > Len(cols) THEN "ok"
  ELSE IF cols[i].id \in seen THEN "duplicate_column"
  ELSE IF \E k \in DOMAIN cols[i].task_ids : cols[i].task_ids[k] \notin keys
       THEN "dangling_task"
  ELSE CheckColumns(cols, keys, seen \cup {cols[i].id}, i + 1)

Assigned(cols) == UNION {Range(cols[i].task_ids) : i \in DOMAIN cols}

\* A variant of the orphan repair that hands the orphans to the last column.
AdoptOrphansLast(cols, keys) ==
  LET orphans == keys \ Assigned(cols)
  IN  IF orphans # {} /\ cols # <<>>
      THEN [cols EXCEPT ![Len(cols)].task_ids = @ \o Sorted(orphans)]
      ELSE cols

\* The orphan repair of check_references.
AdoptOrphans(cols, keys) ==
  LET orphans == keys \ Assigned(cols)
  IN  IF orphans # {} /\ cols # <<>>
      THEN [cols EXCEPT ![1].task_ids = @ \o Sorted(orphans)]
      ELSE cols

\* Board(**d): field validation of every task, then check_references.
\* err is "ok", "field", "duplicate_column" or "dangling_task".
BoardErr(d) ==
  IF \E t \in DOMAIN d.tasks : ~TaskValid(d.tasks[t]) THEN "field"
  ELSE CheckColumns(d.columns, DOMAIN d.tasks, {}, 1)

\* The Board that Board(**d) returns, for d with BoardErr(d) = "ok".
MkBoard(d) ==
  [columns |-> AdoptOrphans(d.columns, DOMAIN d.tasks),
   tasks   |-> [t \in DOMAIN d.tasks |-> MkTask(d.tasks[t])]]

\* Board.model_dump(mode="json")
DumpBoard(b) ==
  [columns |-> b.columns,
   tasks   |-> [t \in DOMAIN b.tasks |-> DumpTask(b.tasks[t])]]

DEFAULT_BOARD ==
  [columns |-> <<Column("todo", "Do zrobienia", <<>>),
                 Column("inprog", "W trakcie", <<>>),
                 Column("done", "Zrobione", <<>>)>>,
   tasks   |-> NoTasks]

\* A variant of the export that writes every due date as "".
ExportDocBlankDue(b) ==
  [columns |-> b.columns,
   tasks   |-> [t \in DOMAIN b.tasks |-> [DumpTask(b.tasks[t]) EXCEPT !.due = DueStr("")]]]

\* The document export_json_button offers: the JSON dump with "" for a
\* missing due date.
ExportDoc(b) ==
  [columns |-> b.columns,
   tasks   |-> [t \in DOMAIN b.tasks |->
                  LET d == DumpTask(b.tasks[t])
                  IN  IF d.due.kind = "none" THEN [d EXCEPT !.due = DueStr("")]
                      ELSE d]]

(***************************************************************************)
(* Board store                                                             *)
(***************************************************************************)
\* A variant of the load that reads the project's row on every call.
LoadedFresh == store

\* st.session_state.board once get_board has loaded it: the cached dict, or
\* the project's row when the session holds none.
Loaded == IF has_board THEN board ELSE store

\* get_board() returns (Board(**st.session_state.board) does not raise).
GetOk == BoardErr(Loaded) = "ok"

\* The Board get_board() returns.
Got == MkBoard(Loaded)

\* What get_board() would return for the cached dict d, dumped.
View(d) == DumpBoard(MkBoard(d))

(***************************************************************************)
(* Operations on a Board object b, as the code between get_board() and     *)
(* save_board() performs them                                              *)
(***************************************************************************)
ColIds(b) == {b.columns[i].id : i \in DOMAIN b.columns}

\* The index of the first column with the given id, 0 when there is none.
RECURSIVE ColIndexFrom(_, _, _)
ColIndexFrom(cols, cid, i) ==
  IF i > Len(cols) THEN 0
  ELSE IF cols[i].id = cid THEN i
  ELSE ColIndexFrom(cols, cid, i + 1)

ColIndex(b, cid) == ColIndexFrom(b.columns, cid, 1)

\* A variant of the extension that puts the ids in front of the column's own.
PrependColumn(cols, cid, ids) ==
  LET i == ColIndexFrom(cols, cid, 1)
  IN  IF i = 0 THEN cols ELSE [cols EXCEPT ![i].task_ids = ids \o @]

\* list.extend / list.append on the first column whose id is cid; nothing
\* when no column matches (the for loop ends without a break).
ExtendColumn(cols, cid, ids) ==
  LET i == ColIndexFrom(cols, cid, 1)
  IN  IF i = 0 THEN cols ELSE [cols EXCEPT ![i].task_ids = @ \o ids]

PutTask(tasks, tid, t) ==
  [x \in DOMAIN tasks \cup {tid} |-> IF x = tid THEN t ELSE tasks[x]]

\* next_id("t"): the ids uuid4 can give that are not in use.
NextTaskIds(b) == TaskIds \ DOMAIN b.tasks

\* next_id("c")
NextColIds(b) == NewColIds \ ColIds(b)

\* A variant of add_task that puts the new id at the head of the column.
add_task_front(b, column_id, t, tid) ==
  [columns |-> PrependColumn(b.columns, column_id, <<tid>>),
   tasks   |-> PutTask(b.tasks, tid, t)]

add_task(b, column_id, t, tid) ==
  [columns |-> ExtendColumn(b.columns, column_id, <<tid>>),
   tasks   |-> PutTask(b.tasks, tid, t)]

\* model_copy(update=updates)
Merge(t, updates) ==
  [f \in DOMAIN t |-> IF f \in DOMAIN updates THEN updates[f] ELSE t[f]]

\* A variant of edit_task that applies the update to every task.
edit_task_all(b, task_id, updates) ==
  [b EXCEPT !.tasks = [x \in DOMAIN b.tasks |-> MkTask(Merge(b.tasks[x], updates))]]

edit_task(b, task_id, updates) ==
  [b EXCEPT !.tasks[task_id] = MkTask(Merge(b.tasks[task_id], updates))]

\* A variant of the strip that leaves the column lists alone.
StripTaskKeep(task_ids, task_id) == task_ids

\* `if task_id in c.task_ids: c.task_ids.remove(task_id)` for one column.
StripTask(task_ids, task_id) ==
  IF task_id \in Range(task_ids) THEN ListRemove(task_ids, task_id)
  ELSE task_ids

delete_task(b, task_id) ==
  [columns |-> [i \in DOMAIN b.columns |->
                  [b.columns[i] EXCEPT !.task_ids = StripTask(@, task_id)]],
   tasks   |-> [x \in DOMAIN b.tasks \ {task_id} |-> b.tasks[x]]]

add_column(b, name, cid) ==
  [b EXCEPT !.columns = Append(@, Column(cid, name, <<>>))]

rename_column(b, column_id, new_name) ==
  LET i == ColIndex(b, column_id)
  IN  IF i = 0 THEN b ELSE [b EXCEPT !.columns[i].name = new_name]

\* A variant of delete_column's checks without the emptiness check.
DeleteColumnErrNoGuard(b, column_id, move_tasks_to) ==
  IF ColIndex(b, column_id) = 0 THEN "not_found" ELSE "ok"

\* delete_column's outcome: "not_found", "not_empty" or "ok".
\* move_tasks_to = "" stands for None (both are falsy).
DeleteColumnErr(b, column_id, move_tasks_to) ==
  LET idx == ColIndex(b, column_id)
  IN  IF idx = 0 THEN "not_found"
      ELSE IF b.columns[idx].task_ids # <<>> /\ move_tasks_to = ""
           THEN "not_empty"
      ELSE "ok"

\* delete_column past its two early returns.
delete_column(b, column_id, move_tasks_to) ==
  LET idx   == ColIndex(b, column_id)
      moved == IF move_tasks_to # ""
               THEN ExtendColumn(b.columns, move_tasks_to,
                                 b.columns[idx].task_ids)
               ELSE b.columns
  IN  [b EXCEPT !.columns = RemoveAt(moved, idx)]

(***************************************************************************)
(* The drag-and-drop payload                                               *)
(***************************************************************************)
HIDDEN == "<U+2063>"

RECURSIVE JoinPieces(_)
JoinPieces(s) == IF s = <<>> THEN "" ELSE Head(s) \o JoinPieces(Tail(s))

\* The last index of s holding x, 0 when there is none.
RECURSIVE LastIndexFrom(_, _, _)
LastIndexFrom(s, x, i) ==
  IF i < 1 THEN 0
  ELSE IF s[i] = x THEN i
  ELSE LastIndexFrom(s, x, i - 1)

\* The four lines of a card.
item_label_multiline(t) ==
  <<t.title, t.desc, IF t.due.kind = "date" THEN t.due.v ELSE "",
    "Priorytet: " \o t.priority>>

\* A task id whose text contains the separator, as an imported document can
\* have it.
SepId == "a" \o HIDDEN \o "b"

\* The pieces of an id's text.
IdPieces(tid) == IF tid = SepId THEN <<"a", HIDDEN, "b">> ELSE <<tid>>

encode_item(label, tid) == label \o <<HIDDEN>> \o IdPieces(tid)

decode_item_id(s) ==
  IF HIDDEN \in Range(s)
  THEN JoinPieces(SubSeq(s, LastIndexFrom(s, HIDDEN, Len(s)) + 1, Len(s)))
  ELSE IF "::" \in Range(s)
  THEN JoinPieces(SubSeq(s, 1, IndexFrom(s, "::", 1) - 1))
  ELSE JoinPieces(s)

\* No filter widget is set.
NoFilter == [title |-> "", prio |-> {}, tags |-> {}]

\* str.lower() on the titles and filter texts in use.
Lower(s) ==
  CASE s = "A"  -> "a"
    [] s = "Bc" -> "bc"
    [] OTHER    -> s

\* `sub in s` for Python strings.
Contains(s, sub) ==
  \E i \in 1..(Len(s) - Len(sub) + 1) : SubSeq(s, i, i + Len(sub) - 1) = sub

\* pass_filter, with the three filter widgets' values in f.
pass_filter(t, f) ==
  /\ f.title # "" => Contains(Lower(t.title), Lower(f.title))
  /\ f.prio # {} => t.priority \in f.prio
  /\ f.tags = {} \/ f.tags \cap Range(t.tags) # {}

\* The label of a card the filter hides.
HiddenLabel(t) == <<"(ukryte filtrem)", "", "", "Priorytet: " \o t.priority>>

RECURSIVE ItemsUnder(_, _, _)
\* The items of one container under the filter f: a token per id of the
\* column that is a key of tasks.
ItemsUnder(b, task_ids, f) ==
  IF task_ids = <<>> THEN <<>>
  ELSE LET tid   == Head(task_ids)
           rest  == ItemsUnder(b, Tail(task_ids), f)
           t     == b.tasks[tid]
           label == IF pass_filter(t, f) THEN item_label_multiline(t)
                    ELSE HiddenLabel(t)
       IN  IF tid \notin DOMAIN b.tasks THEN rest
           ELSE <<encode_item(label, tid)>> \o rest

\* The containers built under the filter f.
ContainersUnder(b, f) ==
  [i \in DOMAIN b.columns |->
     [header |-> b.columns[i].name,
      items  |-> ItemsUnder(b, b.columns[i].task_ids, f)]]

\* The items of one container under the filter that is set.
ColumnItems(b, task_ids) == ItemsUnder(b, task_ids, filters)

\* The containers handed to sort_items.
Containers(b) == ContainersUnder(b, filters)

_extract_items(container_result) == container_result.items

DecodeList(items) == [k \in DOMAIN items |-> decode_item_id(items[k])]

\* A variant of new_ids that reads the payload one place further on.
NewIdsShifted(normalized, i) ==
  IF i < Len(normalized) THEN DecodeList(normalized[i + 1]) ELSE <<>>

\* new_ids of the reconcile loop for column i.
NewIds(normalized, i) ==
  IF i <= Len(normalized) THEN DecodeList(normalized[i]) ELSE <<>>

\* b2 after the reconcile loop over the widget's value res.
Reconciled(b2, res) ==
  LET normalized == [i \in DOMAIN res |-> _extract_items(res[i])]
  IN  [b2 EXCEPT !.columns =
         [i \in DOMAIN b2.columns |->
            [b2.columns[i] EXCEPT !.task_ids = NewIds(normalized, i)]]]

\* A variant of `changed` that is set whatever the loop finds.
ReconcileAlwaysChanged(b2, res) == TRUE

\* `changed` after the reconcile loop.
ReconcileChanged(b2, res) == Reconciled(b2, res) # b2

InsertAt(s, p, x) == SubSeq(s, 1, p) \o <<x>> \o SubSeq(s, p + 1, Len(s))

\* The widget's value after the card at place k of container i is dropped
\* behind place p of container j.
MoveItem(res, i, k, j, p) ==
  LET x    == res[i].items[k]
      less == [res EXCEPT ![i].items = RemoveAt(@, k)]
  IN  [less EXCEPT ![j].items = InsertAt(@, p, x)]

\* What one drag can turn the widget's value into: the same tokens, with one
\* of them at another place of its container or in another container.
Drags(res) ==
  {MoveItem(res, m[1], m[2], m[3], m[4]) :
     m \in {m \in (DOMAIN res) \X (1..Len(Flatten([i \in DOMAIN res |-> res[i].items])))
                  \X (DOMAIN res) \X (0..Len(Flatten([i \in DOMAIN res |-> res[i].items]))) :
              /\ m[2] <= Len(res[m[1]].items)
              /\ m[4] <= Len(res[m[3]].items) - (IF m[1] = m[3] THEN 1 ELSE 0)}}

(***************************************************************************)
(* Inputs                                                                  *)
(***************************************************************************)
\* Column ids passed to the operations: two of the default board's and one
\* that no board has.
ColArgs == {"todo", "inprog", "nope"}

TaskInputs == {NewTask("A", DueDate("2024-05-01"))}

EditUpdates == {[done |-> TRUE], [title |-> ""]}

\* The ways to cut a list of k references into n consecutive columns.
Cuts(n, k) ==
  {c \in [0..n -> 0..k] :
     /\ c[0] = 0
     /\ c[n] = k
     /\ \A i \in 1..n : c[i - 1] <= c[i]}

\* Raw column lists: at most maxcols columns with ids among colids, holding
\* at most maxrefs task ids among ids in all.
RawColumns(ids, colids, maxcols, maxrefs) ==
  LET Cols(n, refs) ==
        {[i \in 1..n |-> Column(cs[i], cs[i], SubSeq(refs, c[i - 1] + 1, c[i]))] :
           cs \in [1..n -> colids], c \in Cuts(n, Len(refs))}
  IN  {<<>>} \cup
      UNION {Cols(x[1], x[2]) : x \in (1..maxcols) \X SeqUpTo(ids, maxrefs)}

RawTaskMaps(ids, variants) ==
  UNION {[S -> variants] : S \in SUBSET ids}

\* The raw documents Board(**raw) is tried on: tasks with an empty due text,
\* tasks with an empty title.
RawBoards ==
  {[columns |-> cols, tasks |-> tasks] :
     cols \in RawColumns(RawTaskIds, {"a", "b"}, MaxRawCols, MaxRawRefs),
     tasks \in RawTaskMaps(RawTaskIds,
                           {NewTask("A", DueStr("")), NewTask("", NoDue)})}

\* The documents the uploader is given: no column or the one column "todo",
\* with at most two references to the first two task ids.
ImportRaws ==
  {[columns |-> cols, tasks |-> tasks] :
     cols \in RawColumns({Tid(1), Tid(2)}, {"todo"}, 1, 2),
     tasks \in RawTaskMaps({Tid(1), Tid(2)}, {NewTask("A", DueStr(""))})}

\* The filter settings tried: a title text, a priority, a tag, and any mix.
Filters ==
  [title : {"", "a"}, prio : {{}, {"High"}}, tags : {{}, {"x"}}]

\* The boards the payload is built for: one or two columns listing, without
\* orphans, tasks that differ in title, priority, due date and tags; one of
\* the ids has the separator in its text.
PayloadBoards ==
  {d \in {[columns |-> cols, tasks |-> tasks] :
            cols \in RawColumns({Tid(1), Tid(2), SepId}, {"a", "b"}, 2, 2),
            tasks \in RawTaskMaps({Tid(1), Tid(2), SepId},
                        {NewTask("A", DueStr("2024-05-01")),
                         [NewTask("Bc", NoDue) EXCEPT !.priority = "High",
                                                      !.tags = <<"x">>]})} :
     /\ BoardErr(d) = "ok"
     /\ DOMAIN d.tasks \subseteq Assigned(d.columns)}

(***************************************************************************)
(* Actions                                                                 *)
(***************************************************************************)
NoOp ==
  [op |-> "init", cid |-> "", dst |-> "", tid |-> "", name |-> "",
   task |-> NewTask("", NoDue), upd |-> <<>>, err |-> "none", saves |-> 0,
   changed |-> FALSE]

\* A session that has not called get_board yet.
NotLoaded == [has_board |-> FALSE, board |-> DumpBoard(DEFAULT_BOARD)]

NotBuilt == [err |-> "pending", board |-> DumpBoard(DEFAULT_BOARD)]

Init ==
  /\ has_board = TRUE
  /\ board = DumpBoard(DEFAULT_BOARD)
  /\ store = DumpBoard(DEFAULT_BOARD)
  /\ rev_bumped = FALSE
  /\ result = Containers(DEFAULT_BOARD)
  /\ rerun = FALSE
  /\ prev = DumpBoard(DEFAULT_BOARD)
  /\ last = NoOp
  /\ raw_in = DumpBoard(DEFAULT_BOARD)
  /\ built = NotBuilt
  /\ other = NotLoaded
  /\ filters = NoFilter

\* get_board() raises: the operation ends there.
Raise(op) ==
  /\ has_board' = TRUE
  /\ board' = Loaded
  /\ prev' = Loaded
  /\ last' = [op EXCEPT !.err = "exception"]
  /\ UNCHANGED <<store, rev_bumped, result, raw_in, built, other, filters>>

\* The operation returns without save_board.
Return(op) ==
  /\ has_board' = TRUE
  /\ board' = Loaded
  /\ prev' = Loaded
  /\ last' = op
  /\ UNCHANGED <<store, rev_bumped, result, raw_in, built, other, filters>>

\* save_board(b), then bump_rev() when bump.
SaveBoard(b, op, bump) ==
  /\ has_board' = TRUE
  /\ board' = DumpBoard(b)
  /\ store' = DumpBoard(b)
  /\ prev' = Loaded
  /\ last' = [op EXCEPT !.saves = 1]
  /\ rev_bumped' = (rev_bumped \/ bump)
  /\ UNCHANGED <<result, raw_in, built, other, filters>>

AddTask(column_id, t) ==
  LET op == [NoOp EXCEPT !.op = "add_task", !.cid = column_id, !.task = t]
  IN  IF ~GetOk THEN Raise(op)
      ELSE \E tid \in NextTaskIds(Got) :
             SaveBoard(add_task(Got, column_id, t, tid),
                       [op EXCEPT !.tid = tid], TRUE)

EditTask(task_id, updates) ==
  LET op == [NoOp EXCEPT !.op = "edit_task", !.tid = task_id, !.upd = updates]
  IN  IF ~GetOk THEN Raise(op)
      ELSE IF task_id \notin DOMAIN Got.tasks
           THEN Return([op EXCEPT !.err = "not_found"])
      ELSE IF ~TaskValid(Merge(Got.tasks[task_id], updates))
           THEN Raise(op)
      ELSE SaveBoard(edit_task(Got, task_id, updates), op, FALSE)

DeleteTask(task_id) ==
  LET op == [NoOp EXCEPT !.op = "delete_task", !.tid = task_id]
  IN  IF ~GetOk THEN Raise(op)
      ELSE SaveBoard(delete_task(Got, task_id), op, FALSE)

AddColumn(name) ==
  LET op == [NoOp EXCEPT !.op = "add_column", !.name = name]
  IN  IF ~GetOk THEN Raise(op)
      ELSE \E cid \in NextColIds(Got) :
             SaveBoard(add_column(Got, name, cid), [op EXCEPT !.cid = cid], TRUE)

RenameColumn(column_id, new_name) ==
  LET op == [NoOp EXCEPT !.op = "rename_column", !.cid = column_id,
                         !.name = new_name]
  IN  IF ~GetOk THEN Raise(op)
      ELSE SaveBoard(rename_column(Got, column_id, new_name), op, TRUE)

DeleteColumn(column_id, move_tasks_to) ==
  LET op == [NoOp EXCEPT !.op = "delete_column", !.cid = column_id,
                         !.dst = move_tasks_to]
      err == DeleteColumnErr(Got, column_id, move_tasks_to)
  IN  IF ~GetOk THEN Raise(op)
      ELSE IF err # "ok" THEN Return([op EXCEPT !.err = err])
      ELSE SaveBoard(delete_column(Got, column_id, move_tasks_to), op, TRUE)

\* import_json_uploader with an uploaded document; the script has passed
\* its own get_board() before it gets there.
Import(raw) ==
  LET op == [NoOp EXCEPT !.op = "import"]
  IN  IF ~GetOk THEN Raise(op)
      ELSE IF BoardErr(raw) # "ok"
           THEN Return([op EXCEPT !.err = BoardErr(raw)])
      ELSE SaveBoard(MkBoard(raw), op, TRUE)

\* The user downloads the export of the board on the page and uploads that
\* file to the import.
ReImport ==
  LET op  == [NoOp EXCEPT !.op = "reimport"]
      raw == ExportDoc(Got)
  IN  IF ~GetOk THEN Raise(op)
      ELSE IF BoardErr(raw) # "ok"
           THEN Return([op EXCEPT !.err = BoardErr(raw)])
      ELSE SaveBoard(MkBoard(raw), op, TRUE)

\* The boards another session can make of the project's row b with one
\* call: a new column, a new task in any column, the column "done" deleted.
ElsewhereBoards(b) ==
  {add_column(b, "Nowa", cid) : cid \in NextColIds(b)}
  \cup {add_task(b, c, t, tid) :
          c \in ColIds(b), t \in TaskInputs, tid \in NextTaskIds(b)}
  \cup {delete_column(b, c, "") :
          c \in {c \in {"done"} : DeleteColumnErr(b, c, "") = "ok"}}

\* Another session, working on the project's current row, saves a mutation:
\* the row changes, this session's cache and widget do not.
Elsewhere ==
  /\ ~rerun
  /\ BoardErr(store) = "ok"
  /\ \E b2 \in ElsewhereBoards(MkBoard(store)) : store' = DumpBoard(b2)
  /\ last' = [NoOp EXCEPT !.op = "elsewhere"]
  /\ UNCHANGED <<has_board, board, rev_bumped, result, rerun, prev, raw_in,
                 built, other, filters>>

\* The "Force DB reload" button.
ForceReload ==
  /\ has_board
  /\ has_board' = FALSE
  /\ prev' = board
  /\ last' = [NoOp EXCEPT !.op = "force_reload"]
  /\ UNCHANGED <<board, store, rev_bumped, result, raw_in, built, other, filters>>

\* The reconcile block, with res the value sort_items has returned.
Reconcile(res) ==
  LET op == [NoOp EXCEPT !.op = "reconcile"]
      changed == ReconcileChanged(Got, res)
  IN  /\ has_board' = TRUE
      /\ prev' = Loaded
      /\ result' = res
      /\ rev_bumped' = FALSE
      /\ board' = IF changed THEN DumpBoard(Reconciled(Got, res)) ELSE Loaded
      /\ store' = IF changed THEN DumpBoard(Reconciled(Got, res)) ELSE store
      /\ last' = [op EXCEPT !.changed = changed,
                            !.saves = IF changed THEN 1 ELSE 0]
      /\ UNCHANGED <<raw_in, built, other>>

\* A run of the script in which no button was pressed: the board is drawn
\* and reconciled with what the widget returns.  Under a new key the widget
\* is new and returns the containers it was given; under the old key it may
\* still return the value it held.
Redraw ==
  IF ~GetOk THEN Raise([NoOp EXCEPT !.op = "reconcile"])
  ELSE \E fresh \in BOOLEAN :
         /\ rev_bumped => fresh
         /\ Reconcile(IF fresh THEN Containers(Got) ELSE result)
         /\ UNCHANGED filters

\* Board(**raw_in)
Construct ==
  /\ built.err = "pending"
  /\ built' = [err   |-> BoardErr(raw_in),
               board |-> IF BoardErr(raw_in) = "ok" THEN MkBoard(raw_in)
                         ELSE raw_in]
  /\ UNCHANGED <<has_board, board, store, rev_bumped, result, rerun, prev,
               last, raw_in, other, filters>>

InitBoard ==
  /\ has_board = TRUE
  /\ board = DumpBoard(DEFAULT_BOARD)
  /\ store = DumpBoard(DEFAULT_BOARD)
  /\ rev_bumped = FALSE
  /\ result = Containers(DEFAULT_BOARD)
  /\ rerun = FALSE
  /\ prev = DumpBoard(DEFAULT_BOARD)
  /\ last = NoOp
  /\ raw_in \in RawBoards
  /\ built = NotBuilt
  /\ other = NotLoaded
  /\ filters = NoFilter

\* The session holds any of the payload boards.
InitPayload ==
  /\ board \in PayloadBoards
  /\ has_board = TRUE
  /\ store = board
  /\ rev_bumped = FALSE
  /\ filters = NoFilter
  /\ result = ContainersUnder(MkBoard(board), NoFilter)
  /\ rerun = FALSE
  /\ prev = board
  /\ last = NoOp
  /\ raw_in = DumpBoard(DEFAULT_BOARD)
  /\ built = NotBuilt
  /\ other = NotLoaded

\* The user sets the filter widgets to f: the script runs, builds the
\* containers under f, and reconciles with what the widget returns for them.
SetFilter(f) ==
  /\ ~rerun
  /\ GetOk
  /\ filters' = f
  /\ Reconcile(ContainersUnder(Got, f))
  /\ rerun' = FALSE

\* A call of an operation by itself: no script run is involved.
Call(Op) == Op /\ UNCHANGED rerun

\* A button's handler: it runs in a script run that no st.rerun() has
\* requested, calls its operation and then st.rerun().  When the operation
\* raises, the run ends with the exception shown and nothing is requested.
Handler(Op) ==
  /\ ~rerun
  /\ Op
  /\ rerun' = (last'.err # "exception")

\* The run st.rerun() has requested: no button is pressed in it.
Rerun ==
  /\ rerun
  /\ Redraw
  /\ rerun' = FALSE

\* The user drags a card: the widget returns the new arrangement and the
\* script runs again.
DragDrop ==
  /\ ~rerun
  /\ ~rev_bumped
  /\ GetOk
  /\ \E res \in Drags(result) \ {result} : Reconcile(res)
  /\ UNCHANGED filters
  /\ rerun' = FALSE

\* The next call comes from the other of the two sessions: its cache takes
\* the place of st.session_state.board.
Switch ==
  /\ has_board' = other.has_board
  /\ board' = other.board
  /\ other' = [has_board |-> has_board, board |-> board]
  /\ prev' = IF other.has_board THEN other.board ELSE store
  /\ last' = [NoOp EXCEPT !.op = "switch"]
  /\ UNCHANGED <<store, rev_bumped, result, rerun, raw_in, built, filters>>

\* The six mutation operations, called with any arguments.
NextOps ==
  \/ Call(\E c \in ColArgs, t \in TaskInputs : AddTask(c, t))
  \/ Call(\E tid \in TaskIds, u \in EditUpdates : EditTask(tid, u))
  \/ Call(\E tid \in TaskIds : DeleteTask(tid))
  \/ Call(AddColumn("Nowa"))
  \/ Call(\E c \in {"todo", "nope"} : RenameColumn(c, "Inna"))
  \/ Call(\E c \in ColArgs, d \in ColArgs \cup {""} : DeleteColumn(c, d))

Next ==
  \/ Handler(\E c \in ColArgs, t \in TaskInputs : AddTask(c, t))
  \/ Handler(\E tid \in TaskIds, u \in EditUpdates : EditTask(tid, u))
  \/ Handler(\E tid \in TaskIds : DeleteTask(tid))
  \/ Handler(AddColumn("Nowa"))
  \/ Handler(\E c \in {"todo", "nope"} : RenameColumn(c, "Inna"))
  \/ Handler(\E c \in ColArgs, d \in ColArgs \cup {""} : DeleteColumn(c, d))
  \/ Handler(\E raw \in ImportRaws : Import(raw))
  \/ Handler(ForceReload)
  \/ Handler(ReImport)
  \/ Rerun
  \/ DragDrop

\* The mutation operations called from two sessions in any order.
NextTwo ==
  \/ Call(\E t \in TaskInputs : AddTask("todo", t))
  \/ Call(\E tid \in TaskIds : EditTask(tid, [done |-> TRUE]))
  \/ Call(\E tid \in TaskIds : DeleteTask(tid))
  \/ Call(RenameColumn("todo", "Inna"))
  \/ Switch

\* This session reloads and drags while another session changes the row.
NextReload ==
  \/ Elsewhere
  \/ Handler(ForceReload)
  \/ Rerun
  \/ DragDrop

\* The whole application.
Spec == Init /\ [][Next]_vars

\* The mutation operations alone, from the default board.
SpecOps == Init /\ [][NextOps]_vars

\* Two sessions on one project, each calling the mutation operations.
SpecTwo == Init /\ [][NextTwo]_vars

\* The payload under every filter setting, for every payload board.
SpecPayload == InitPayload /\ [][\E f \in Filters : SetFilter(f)]_vars

\* One session with its widget, and the project's row changing under it.
SpecReload == Init /\ [][NextReload]_vars

\* Board construction alone, over raw documents.
SpecBoard == InitBoard /\ [][Construct]_vars

(***************************************************************************)
(* Properties of Board construction (SpecBoard)                            *)
(***************************************************************************)
DuplicateColumnId(d) ==
  \E i, j \in DOMAIN d.columns : i < j /\ d.columns[i].id = d.columns[j].id

DanglingReference(d) ==
  \E i \in DOMAIN d.columns :
    \E k \in DOMAIN d.columns[i].task_ids :
      d.columns[i].task_ids[k] \notin DOMAIN d.tasks

Orphans(d) == DOMAIN d.tasks \ Assigned(d.columns)

Ascending(s) ==
  \A i, j \in DOMAIN s : i < j => TidRank(s[i]) < TidRank(s[j])

\* b is the raw document d with its tasks parsed and its orphans appended to
\* the first column in ascending order; every other column is as in d.
RepairedFrom(d, b) ==
  /\ DOMAIN b.tasks = DOMAIN d.tasks
  /\ \A t \in DOMAIN d.tasks : b.tasks[t] = MkTask(d.tasks[t])
  /\ Len(b.columns) = Len(d.columns)
  /\ \A i \in DOMAIN d.columns :
       /\ b.columns[i].id = d.columns[i].id
       /\ b.columns[i].name = d.columns[i].name
       /\ i > 1 => b.columns[i].task_ids = d.columns[i].task_ids
  /\ d.columns # <<>> =>
       LET old  == d.columns[1].task_ids
           new  == b.columns[1].task_ids
           tail == SubSeq(new, Len(old) + 1, Len(new))
       IN  /\ Len(new) = Len(old) + Cardinality(Orphans(d))
           /\ SubSeq(new, 1, Len(old)) = old
           /\ Range(tail) = Orphans(d)
           /\ Ascending(tail)

ConstructionAsClaimed ==
  /\ (built.err # "ok") <=> (DuplicateColumnId(raw_in) \/ DanglingReference(raw_in))
  /\ built.err = "ok" => RepairedFrom(raw_in, built.board)

Listed(b) == Flatten([i \in DOMAIN b.columns |-> b.columns[i].task_ids])

\* C1: starting from the default board, after any sequence of add_task,
\* edit_task, delete_task, add_column, rename_column and delete_column calls
\* with any arguments, get_board returns a board in which every listed task
\* id is a key of tasks and no task id is listed more than once, in one
\* column or in several.
C1_ReferentialIntegrity ==
  /\ GetOk
  /\ Range(Listed(Got)) \subseteq DOMAIN Got.tasks
  /\ \A t \in Range(Listed(Got)) : Count(Listed(Got), t) = 1

\* A column was deleted with a destination no column has: its task is in
\* tasks, in no column of the saved board, and get_board has a first column
\* to give it to.
C1_Witness ==
  /\ last.op = "delete_column"
  /\ last.dst = "nope"
  /\ last.err = "none"
  /\ Orphans(board) # {}
  /\ board.columns # <<>>
  /\ Listed(Got) # Listed(board)


\* The board get_board returned to the last operation.
Before == MkBoard(prev)

\* The board get_board returns now.
After == MkBoard(board)

\* The last step was a call of op that got its board from get_board.
Called(op) == last.op = op /\ last.err # "exception" /\ BoardErr(prev) = "ok"

\* The place in Before of the column the last call named, and of the
\* destination it named; 0 when there is none.
Src == ColIndex(Before, last.cid)
Dst == ColIndex(Before, last.dst)

\* get_board returns the board it returned before the last call.
BoardUnchanged == BoardErr(board) = "ok" /\ After = Before

\* C5: delete_column(column_id) with no destination, on an existing column
\* whose task_ids is not empty, reports an error and leaves the board
\* unchanged; no save is performed.
C5_DeleteNonEmptyRefused ==
  (/\ Called("delete_column")
   /\ last.dst = ""
   /\ Src # 0
   /\ Before.columns[Src].task_ids # <<>>)
  => /\ last.err = "not_empty"
     /\ last.saves = 0
     /\ board = prev
     /\ store = prev
     /\ BoardUnchanged

\* The refused column is not the only one holding a task.
C5_Witness ==
  /\ Called("delete_column")
  /\ last.dst = ""
  /\ Src # 0
  /\ Before.columns[Src].task_ids # <<>>
  /\ last.err = "not_empty"
  /\ Cardinality(DOMAIN Before.tasks) >= 2

\* C6: delete_column(A, move_tasks_to=B) with A and B distinct existing
\* columns removes A, makes B's task_ids its previous task_ids followed by
\* A's previous task_ids in their order, and leaves every other column, the
\* order of the remaining columns and tasks unchanged.
C6_DeleteMovesTasks ==
  (/\ Called("delete_column")
   /\ last.cid # last.dst
   /\ Src # 0
   /\ Dst # 0)
  => /\ last.err = "none"
     /\ BoardErr(board) = "ok"
     /\ store = board
     /\ Len(After.columns) = Len(Before.columns) - 1
     /\ \A i \in DOMAIN After.columns :
          LET o == IF i < Src THEN i ELSE i + 1
          IN  /\ After.columns[i].id = Before.columns[o].id
              /\ After.columns[i].name = Before.columns[o].name
              /\ After.columns[i].task_ids =
                   IF o = Dst
                   THEN Before.columns[Dst].task_ids \o Before.columns[Src].task_ids
                   ELSE Before.columns[o].task_ids
     /\ After.tasks = Before.tasks

\* Both the deleted column and the destination held a task.
C6_Witness ==
  /\ Called("delete_column")
  /\ last.cid # last.dst
  /\ Src # 0
  /\ Dst # 0
  /\ Before.columns[Src].task_ids # <<>>
  /\ Before.columns[Dst].task_ids # <<>>
  /\ last.err = "none"

\* C7 as stated: delete_column fails and leaves the board unchanged whenever
\* column_id matches no column or move_tasks_to is given and matches no
\* column.
C7_DeleteFailsOnUnknownIds ==
  (/\ Called("delete_column")
   /\ (Src = 0 \/ (last.dst # "" /\ Dst = 0)))
  => /\ last.err # "none"
     /\ last.saves = 0
     /\ BoardUnchanged

\* C8: add_task(column_id, t) on an existing column returns an id that was
\* no key of tasks, maps it to t, appends it as the last element of the
\* column's task_ids and leaves every other column and every other task
\* unchanged.
C8_AddTask ==
  (Called("add_task") /\ Src # 0)
  => /\ last.tid \notin DOMAIN Before.tasks
     /\ BoardErr(board) = "ok"
     /\ store = board
     /\ DOMAIN After.tasks = DOMAIN Before.tasks \cup {last.tid}
     /\ After.tasks[last.tid] = last.task
     /\ board.tasks[last.tid] = DumpTask(last.task)
     /\ \A x \in DOMAIN Before.tasks : After.tasks[x] = Before.tasks[x]
     /\ Len(After.columns) = Len(Before.columns)
     /\ \A i \in DOMAIN After.columns :
          /\ After.columns[i].id = Before.columns[i].id
          /\ After.columns[i].name = Before.columns[i].name
          /\ After.columns[i].task_ids =
               IF i = Src THEN Append(Before.columns[i].task_ids, last.tid)
               ELSE Before.columns[i].task_ids

\* The task joined a column that held one already.
C8_Witness ==
  /\ Called("add_task")
  /\ Src # 0
  /\ Before.columns[Src].task_ids # <<>>
  /\ last.saves = 1

\* C9 as stated: add_task(column_id, t) with a column_id that matches no
\* column is a no-op: after the call, and after a later get_board, tasks has
\* no new key and every column's task_ids is unchanged.
C9_AddTaskUnknownColumnNoOp ==
  (Called("add_task") /\ Src = 0)
  => /\ DOMAIN board.tasks = DOMAIN Before.tasks
     /\ Len(board.columns) = Len(Before.columns)
     /\ \A i \in DOMAIN Before.columns :
          board.columns[i].task_ids = Before.columns[i].task_ids
     /\ BoardUnchanged

(***************************************************************************)
(* Properties of the reconcile block (Spec)                                *)
(***************************************************************************)
\* The last step was a reconcile pass that got its board.
Reconciling == last.op = "reconcile" /\ last.err = "none"

\* The ids decoded from the payload's list for column i.
DecodedAt(i) ==
  IF i \in DOMAIN result THEN DecodeList(_extract_items(result[i])) ELSE <<>>

AllDecoded == Flatten([i \in DOMAIN result |-> DecodedAt(i)])

\* The payload has one list per column and its decoded ids are the ids the
\* columns held, each as often as it was held.
Redistribution ==
  /\ Len(result) = Len(Before.columns)
  /\ \A t \in Range(AllDecoded) \cup Range(Listed(Before)) :
       Count(AllDecoded, t) = Count(Listed(Before), t)

\* The columns whose decoded list is not the list the column held.
Differing == {i \in DOMAIN Before.columns : DecodedAt(i) # Before.columns[i].task_ids}

\* C3: when the payload has one list per column and its decoded ids are a
\* redistribution of exactly the ids the columns hold, a reconcile pass leaves
\* every column i with the decoded list at position i, leaves tasks unchanged
\* and keeps the multiset of task ids over all columns.
C3_ReconcileRedistribution ==
  (Reconciling /\ Redistribution) =>
    /\ BoardErr(board) = "ok"
    /\ Len(After.columns) = Len(Before.columns)
    /\ \A i \in DOMAIN After.columns :
         /\ After.columns[i].task_ids = DecodedAt(i)
         /\ After.columns[i].id = Before.columns[i].id
    /\ After.tasks = Before.tasks
    /\ \A t \in Range(Listed(After)) \cup Range(Listed(Before)) :
         Count(Listed(After), t) = Count(Listed(Before), t)

\* A card has gone from one column to another, which held a card already.
C3_Witness ==
  /\ Reconciling
  /\ Redistribution
  /\ \E i, j \in DOMAIN Before.columns :
       /\ Len(After.columns[i].task_ids) < Len(Before.columns[i].task_ids)
       /\ Len(After.columns[j].task_ids) > Len(Before.columns[j].task_ids)
       /\ Before.columns[j].task_ids # <<>>

\* C4: a reconcile pass performs no save when every column's decoded list
\* equals the column's task_ids (changed is false, the session's board and
\* the persisted snapshot are as they were), and performs exactly one save,
\* of the whole board, when one or more columns differ.
C4_ReconcileSaves ==
  Reconciling =>
    IF Differing = {}
    THEN /\ ~last.changed
         /\ last.saves = 0
         /\ board = prev
         /\ store = prev
    ELSE /\ last.changed
         /\ last.saves = 1
         /\ store = board
         /\ \A i \in DOMAIN Before.columns :
              /\ i \in DOMAIN board.columns
              /\ board.columns[i].task_ids = DecodedAt(i)

\* Two columns differ and one save was made.
C4_Witness ==
  /\ Reconciling
  /\ Cardinality(Differing) >= 2
  /\ last.saves = 1


(***************************************************************************)
(* Properties of delete_task on any board, imported ones included (Spec)   *)
(***************************************************************************)
Without(s, x) == SelectSeq(s, LAMBDA y : y # x)

\* C10 as stated: after delete_task(task_id) on any board get_board can
\* return, task_id is no key of tasks and occurs in no column, every other
\* id keeps its column and relative position, and the saved snapshot loads
\* again without a validation error; when task_id was absent, tasks and all
\* columns are unchanged.
C10_DeleteTask ==
  Called("delete_task")
  => /\ last.tid \notin DOMAIN board.tasks
     /\ last.tid \notin Range(Listed(board))
     /\ Len(board.columns) = Len(Before.columns)
     /\ \A i \in DOMAIN Before.columns :
          board.columns[i].task_ids = Without(Before.columns[i].task_ids, last.tid)
     /\ BoardErr(store) = "ok"
     /\ last.tid \notin DOMAIN Before.tasks => BoardUnchanged


(***************************************************************************)
(* Properties of edit_task (SpecOps)                                       *)
(***************************************************************************)
\* The last step was edit_task and get_board gave it a board.
Editing == last.op = "edit_task" /\ BoardErr(prev) = "ok"

\* The task with the fields of the update put over its own.
Updated(t, u) == [f \in DOMAIN t |-> IF f \in DOMAIN u THEN u[f] ELSE t[f]]

\* The update asks for a task that Task's validation refuses.
Refused(t, u) ==
  LET m == Updated(t, u)
  IN  m.title = "" \/ m.priority \notin {"Low", "Med", "High"}

\* C11: edit_task(task_id, updates) leaves the board unchanged and performs
\* no save when task_id is no key of tasks or when the merged task fails
\* validation; when it succeeds it replaces only tasks[task_id] and leaves
\* columns, every task_ids list and every other task unchanged.
C11_EditTask ==
  Editing =>
    IF \/ last.tid \notin DOMAIN Before.tasks
       \/ Refused(Before.tasks[last.tid], last.upd)
    THEN /\ last.err # "none"
         /\ last.saves = 0
         /\ board = prev
         /\ store = prev
         /\ BoardUnchanged
    ELSE /\ last.err = "none"
         /\ last.saves = 1
         /\ store = board
         /\ BoardErr(board) = "ok"
         /\ After.columns = Before.columns
         /\ DOMAIN After.tasks = DOMAIN Before.tasks
         /\ After.tasks[last.tid] = Updated(Before.tasks[last.tid], last.upd)
         /\ \A x \in DOMAIN Before.tasks \ {last.tid} :
              After.tasks[x] = Before.tasks[x]

\* An update with an empty title was refused on a board with two tasks, one
\* of them edited before.
C11_Witness ==
  /\ Editing
  /\ last.tid \in DOMAIN Before.tasks
  /\ Refused(Before.tasks[last.tid], last.upd)
  /\ last.err = "exception"
  /\ Cardinality(DOMAIN Before.tasks) >= 2
  /\ \E x \in DOMAIN Before.tasks : Before.tasks[x].done


(***************************************************************************)
(* Export and import (Spec)                                                *)
(***************************************************************************)
\* C12: for every board get_board can return, importing the document
\* produced by exporting that board yields a board equal to it: the same
\* columns in the same order with the same task_ids and the same tasks; a
\* missing due date is exported as "" and read back as no date.
C12_ExportImportRoundTrip ==
  (last.op = "reimport" /\ BoardErr(prev) = "ok")
  => /\ last.err = "none"
     /\ last.saves = 1
     /\ store = board
     /\ BoardErr(board) = "ok"
     /\ After = Before
     /\ \A t \in DOMAIN Before.tasks :
          Before.tasks[t].due = NoDue =>
            /\ ExportDoc(Before).tasks[t].due = DueStr("")
            /\ After.tasks[t].due = NoDue

\* The board exported and imported had a task with a due date and a task
\* without one, both listed in columns.
C12_Witness ==
  /\ last.op = "reimport"
  /\ last.err = "none"
  /\ \E t, u \in DOMAIN Before.tasks :
       /\ Before.tasks[t].due = NoDue
       /\ Before.tasks[u].due.kind = "date"
       /\ {t, u} \subseteq Range(Listed(Before))


(***************************************************************************)
(* Two sessions on one project (SpecTwo)                                   *)
(***************************************************************************)
\* The board the calling session works on: its cache, or the project's row
\* when it has none yet.
WriterCache == IF has_board THEN board ELSE store

\* The board the call recorded in op makes of b.
Applied(op, b) ==
  CASE op.op = "add_task"      -> add_task(b, op.cid, op.task, op.tid)
    [] op.op = "edit_task"     -> edit_task(b, op.tid, op.upd)
    [] op.op = "delete_task"   -> delete_task(b, op.tid)
    [] op.op = "rename_column" -> rename_column(b, op.cid, op.name)
    [] OTHER                   -> b

\* C13: when two sessions work on one project, each with its own cache, and
\* both run mutations in any order, the snapshot after a save is exactly the
\* saving session's board, which is its own cached board with its mutation
\* applied: nothing of what the other session saved since is kept, no save
\* is rejected and nothing is merged.
C13_LastWriterWins ==
  [][(last'.op \in {"add_task", "edit_task", "delete_task", "rename_column"}
        /\ last'.err = "none")
     => /\ last'.saves = 1
        /\ has_board'
        /\ store' = board'
        /\ board' = DumpBoard(Applied(last', MkBoard(WriterCache)))
        /\ other' = other]_vars

\* A session that still had the column's first name has saved after the
\* other session's rename: the snapshot has the first name again, and the
\* task the other session holds is not in it.
C13_Witness ==
  /\ last.op = "add_task"
  /\ last.saves = 1
  /\ other.has_board
  /\ other.board.columns[1].name = "Inna"
  /\ store.columns[1].name = "Do zrobienia"
  /\ store = board
  /\ DOMAIN other.board.tasks # {}
  /\ DOMAIN store.tasks \cap DOMAIN other.board.tasks = {}


(***************************************************************************)
(* The payload under filters (SpecPayload)                                 *)
(***************************************************************************)
\* The payload built for the board has one list per column, in column order,
\* and the tokens of list i decode, in order, to the task_ids of column i.
PayloadKeepsIds ==
  /\ Len(result) = Len(Before.columns)
  /\ \A i \in DOMAIN Before.columns :
       /\ Len(_extract_items(result[i])) = Len(Before.columns[i].task_ids)
       /\ \A k \in DOMAIN Before.columns[i].task_ids :
            decode_item_id(_extract_items(result[i])[k]) = Before.columns[i].task_ids[k]

\* C14 as stated: for every board and every filter setting, the payload for
\* the drag-and-drop widget has, for each column in column order, exactly
\* one token per id of the column's task_ids in the same order, and each
\* token decodes to that id.
C14_FilterIsCosmetic == Reconciling => PayloadKeepsIds

\* The same, for boards none of whose task ids contains the separator
\* U+2063: here the filter changes labels only.
SeparatorFreePayloadKeepsIds ==
  (Reconciling /\ SepId \notin DOMAIN Before.tasks) => PayloadKeepsIds

\* A filter hides one card of a column and shows the other.
FilterHidesOne ==
  /\ Reconciling
  /\ SepId \notin DOMAIN Before.tasks
  /\ filters # NoFilter
  /\ \E i \in DOMAIN result :
       \E k, l \in DOMAIN result[i].items :
         /\ result[i].items[k][1] = "(ukryte filtrem)"
         /\ result[i].items[l][1] # "(ukryte filtrem)"


(***************************************************************************)
(* Payloads that do not match the board (Spec)                             *)
(***************************************************************************)
\* C15 as stated: a reconcile pass whose payload's decoded ids are not, as a
\* set, the ids the board's columns hold is not committed: the board and the
\* snapshot stay as they are, no column comes to list an id that is no key
\* of tasks, and get_board succeeds afterwards.
C15_MismatchNotCommitted ==
  (Reconciling /\ Range(AllDecoded) # Range(Listed(Before)))
  => /\ last.saves = 0
     /\ board = prev
     /\ store = prev
     /\ BoardErr(board) = "ok"
     /\ Range(Listed(board)) \subseteq DOMAIN board.tasks


(***************************************************************************)
(* Payloads of another length than the board (SpecReload)                  *)
(***************************************************************************)
\* C16 as stated: a reconcile pass over a payload with fewer or more lists
\* than the board has columns completes without error, ignores the lists
\* beyond the last column and leaves unchanged the task_ids of every column
\* that has no list in the payload.
C16_LengthMismatchTolerated ==
  (Reconciling /\ Len(result) # Len(Before.columns))
  => /\ BoardErr(board) = "ok"
     /\ Len(board.columns) = Len(Before.columns)
     /\ \A i \in DOMAIN Before.columns :
          i > Len(result) => board.columns[i].task_ids = Before.columns[i].task_ids

====
